---- MODULE Spec2Model ----
(***************************************************************************)
(* SmartGrade: the grading session of App.tsx, the two model round trips   *)
(* of services/geminiService.ts and the file upload of ImageUploader.tsx.  *)
(*                                                                         *)
(* Text is a sequence of tokens: a token is one character or one literal   *)
(* of the source ("\n\n", "[Updated Rule]: ").  A JavaScript value is a    *)
(* tagged record [t, v].  A call of the model that has not settled yet is  *)
(* an entry of inflight; a FileReader loop that has not finished is an     *)
(* entry of reads.                                                         *)
(***************************************************************************)
EXTENDS Integers, Sequences, FiniteSets, TLC

VARIABLES
    language,       \* App.tsx:51
    examFiles,      \* App.tsx:52
    rubricFiles,    \* App.tsx:53
    instructions,   \* App.tsx:54  the instruction ledger
    status,         \* App.tsx:55
    result,         \* App.tsx:56
    errorMessage,   \* App.tsx:57
    inflight,       \* calls of ai.models.generateContent awaiting their outcome
    reads,          \* handleFileSelect continuations awaiting the FileReader
    last            \* the handler or continuation that ran last, with its input

vars == <<language, examFiles, rubricFiles, instructions, status, result,
          errorMessage, inflight, reads, last>>

----------------------------------------------------------------------------
(* Bounds of the model *)

MaxGroupLen == 1
MaxRules == 1
MaxReads == 1
MaxComposeLen == 2

(* Program constants *)

RubricMaxFiles == 5
ExamMaxFiles == 10

----------------------------------------------------------------------------
(* JavaScript values *)

JNull == [t |-> "null", v |-> <<>>]
JStr(s) == [t |-> "string", v |-> s]
JNum(n) == [t |-> "number", v |-> n]
JBool(b) == [t |-> "boolean", v |-> b]
JArr(a) == [t |-> "array", v |-> a]
JObj(f) == [t |-> "object", v |-> f]

\* truthiness of a value used as a condition (App.tsx:91, App.tsx:159)
Truthy(x) ==
    CASE x.t = "null" -> FALSE
      [] x.t = "string" -> x.v # ""
      [] x.t = "number" -> x.v # 0
      [] x.t = "boolean" -> x.v
      [] OTHER -> TRUE

----------------------------------------------------------------------------
(* Text *)

Whitespace == {" ", "\n\n"}

RECURSIVE trimStart(_)
trimStart(s) ==
    IF s # <<>> /\ Head(s) \in Whitespace THEN trimStart(Tail(s)) ELSE s

RECURSIVE trimEnd(_)
trimEnd(s) ==
    IF s # <<>> /\ s[Len(s)] \in Whitespace
    THEN trimEnd(SubSeq(s, 1, Len(s) - 1))
    ELSE s

\* String.prototype.trim
trim(s) == trimEnd(trimStart(s))

\* number of machine-appended rules in a ledger text
RECURSIVE RuleCount(_)
RuleCount(s) ==
    IF s = <<>> THEN 0
    ELSE (IF Head(s) = "[Updated Rule]: " THEN 1 ELSE 0) + RuleCount(Tail(s))

----------------------------------------------------------------------------
(* types.ts *)

GradingStatus == {"idle", "processing", "success", "error", "improving"}
Language == {"en", "zh"}

\* FileWithPreview as handleFileSelect builds it
ImgPage == [name |-> "page.png", mimeType |-> "image/png", base64 |-> "QUJD"]

\* the files the teacher may pick in the file dialog
FileChoices == {ImgPage}

\* a second image, of another type
ImgPhoto == [name |-> "photo.jpg", mimeType |-> "image/jpeg", base64 |-> "REVG"]

\* a file of no bytes: readAsDataURL gives "data:image/png;base64," and
\* result.split(',')[1] is the empty string
ImgBlank == [name |-> "empty.png", mimeType |-> "image/png", base64 |-> ""]

\* the files a group may hold when grading is triggered
ComposeFiles == {ImgPage, ImgPhoto, ImgBlank}

\* what the teacher may type into the instructions textarea
TeacherTexts == {<<>>, <<" ">>, <<"x">>}

\* what the teacher may type into the feedback box of ResultView
Feedbacks == {<<>>, <<" ">>, <<"f">>}

\* what the teacher may type into the score card
Scores == {0, 12}

----------------------------------------------------------------------------
(* translations *)

\* t.errorFiles; the zh text is written here in ASCII
errorFiles(lang) ==
    IF lang = "en"
    THEN "Please upload at least one exam image and one rubric/key image."
    ELSE "zh: please upload at least one exam image and one answer image."

----------------------------------------------------------------------------
(* The model's answers (ai.models.generateContent) *)

\* a rejected call: the error thrown by the SDK, with its message
Reject(m) == [kind |-> "reject", message |-> m]
\* a resolved call: the response, with its text
Resolve(text) == [kind |-> "resolve", text |-> text]

ProviderMessages == {"429 quota exceeded", ""}

\* response.text of a grading call: undefined, "", text that is no JSON,
\* the JSON literal null, or a JSON object given as its members in order
TextUndefined == [form |-> "undefined", members |-> <<>>]
TextEmpty == [form |-> "empty", members |-> <<>>]
TextGarbage == [form |-> "garbage", members |-> <<>>]
TextNull == [form |-> "null", members |-> <<>>]
TextObject(members) == [form |-> "object", members |-> members]

Question1 ==
    [questionId |-> JStr("1"), score |-> JNum(8), maxScore |-> JNum(10),
     isCorrect |-> JBool(FALSE), studentAnswer |-> JStr("..."),
     correction |-> JStr("..."), comments |-> JStr("...")]

GoodMembers ==
    << <<"studentName", JStr("Ann")>>, <<"totalScore", JNum(8)>>,
       <<"maxScore", JNum(10)>>, <<"letterGrade", JStr("B")>>,
       <<"summary", JStr("Good work")>>,
       <<"constructiveFeedback", JStr("Review part 2")>>,
       <<"questions", JArr(<<JObj(Question1)>>)>> >>

\* a second question, with the optional field rubricReference
Question2 ==
    [questionId |-> JStr("2b"), score |-> JNum(2), maxScore |-> JNum(2),
     isCorrect |-> JBool(TRUE), studentAnswer |-> JStr("x = 4"),
     correction |-> JStr(""), rubricReference |-> JStr("Q2b: x = 4"),
     comments |-> JStr("ok")]

\* a conforming body without the optional studentName, with two questions
TwoQuestionMembers ==
    << <<"questions", JArr(<<JObj(Question1), JObj(Question2)>>)>>,
       <<"totalScore", JNum(10)>>, <<"maxScore", JNum(12)>>,
       <<"letterGrade", JStr("B+")>>, <<"summary", JStr("Solid")>>,
       <<"constructiveFeedback", JStr("")>> >>

\* the same body without the required field summary
MissingMembers == SelectSeq(GoodMembers, LAMBDA m : m[1] # "summary")

\* the same body with totalScore a string
WrongTypeMembers ==
    [i \in DOMAIN GoodMembers |->
        IF GoodMembers[i][1] = "totalScore"
        THEN <<"totalScore", JStr("8")>>
        ELSE GoodMembers[i]]

\* the texts a grading call may resolve with; the objects are ones
\* ResultView can render
GradeTexts ==
    {TextUndefined, TextEmpty, TextGarbage, TextNull, TextObject(GoodMembers),
     TextObject(TwoQuestionMembers), TextObject(MissingMembers),
     TextObject(WrongTypeMembers)}

GradeResponses ==
    {Reject(m) : m \in ProviderMessages} \cup {Resolve(t) : t \in GradeTexts}

\* response.text of a refinement call: undefined or a string
RuleUndefined == [defined |-> FALSE, chars |-> <<>>]
RuleText(chars) == [defined |-> TRUE, chars |-> chars]

RuleTexts ==
    {RuleUndefined, RuleText(<<>>), RuleText(<<" ">>), RuleText(<<" ", "r", " ">>)}

ImproveResponses ==
    {Reject(m) : m \in ProviderMessages} \cup {Resolve(t) : t \in RuleTexts}

----------------------------------------------------------------------------
(* services/geminiService.ts *)

Return(v) == [ok |-> TRUE, value |-> v]
Throw(m) == [ok |-> FALSE, message |-> m]

\* the properties of gradingSchema with their types
SchemaTypes ==
    [studentName |-> "string", totalScore |-> "number", maxScore |-> "number",
     letterGrade |-> "string", summary |-> "string",
     constructiveFeedback |-> "string", questions |-> "array"]

SchemaRequired ==
    {"totalScore", "maxScore", "letterGrade", "summary", "questions",
     "constructiveFeedback"}

QuestionTypes ==
    [questionId |-> "string", score |-> "number", maxScore |-> "number",
     isCorrect |-> "boolean", studentAnswer |-> "string",
     correction |-> "string", rubricReference |-> "string",
     comments |-> "string"]

QuestionRequired ==
    {"questionId", "score", "maxScore", "isCorrect", "studentAnswer",
     "correction", "comments"}

ConformsTo(x, types, required) ==
    /\ x.t = "object"
    /\ required \subseteq DOMAIN x.v
    /\ \A k \in DOMAIN x.v \cap DOMAIN types : x.v[k].t = types[k]

\* a value that fully satisfies gradingSchema
Conforms(x) ==
    /\ ConformsTo(x, SchemaTypes, SchemaRequired)
    /\ \A i \in DOMAIN x.v["questions"].v :
          ConformsTo(x.v["questions"].v[i], QuestionTypes, QuestionRequired)

\* the object a JSON object text denotes: of two members with one key the
\* later one stands
ObjectOf(members) ==
    [k \in {members[i][1] : i \in DOMAIN members} |->
        LET at == {i \in DOMAIN members : members[i][1] = k}
            j == CHOOSE i \in at : \A h \in at : h <= i
        IN  members[j][2]]

Reverse(a) == [i \in DOMAIN a |-> a[Len(a) + 1 - i]]

\* a parse that hands out the questions in the opposite order
JSONparseReversing(text) ==
    CASE text.form = "null" -> Return(JNull)
      [] text.form = "object" ->
            LET o == ObjectOf(text.members)
            IN  Return(JObj([k \in DOMAIN o |->
                    IF k = "questions" /\ o[k].t = "array"
                    THEN JArr(Reverse(o[k].v))
                    ELSE o[k]]))
      [] OTHER -> Throw("Unexpected token in JSON")

\* a parse that loses the optional field studentName
JSONparseLossy(text) ==
    CASE text.form = "null" -> Return(JNull)
      [] text.form = "object" ->
            Return(JObj(ObjectOf(
                SelectSeq(text.members, LAMBDA m : m[1] # "studentName"))))
      [] OTHER -> Throw("Unexpected token in JSON")

\* JSON.parse
JSONparse(text) ==
    CASE text.form = "null" -> Return(JNull)
      [] text.form = "object" -> Return(JObj(ObjectOf(text.members)))
      [] OTHER -> Throw("Unexpected token in JSON")

\* a test that takes every text for present
TextAlwaysTruthy(text) == TRUE

TextTruthy(text) == text.form \notin {"undefined", "empty"}

langInstruction(lang) ==
    IF lang = "zh"
    THEN "IMPORTANT: Provide ALL text fields in Simplified Chinese."
    ELSE "IMPORTANT: Provide all text fields in English."

\* a prompt that leaves the teacher's instructions out
promptTextWithoutInstructions(instr, lang) ==
    <<"You are an expert academic grader for K-12 education.",
      langInstruction(lang), "Instructions: 1. .. 7.">>
    \o <<"\n\nBelow are the images. First, the Answer Key/Rubric, then the Student Exam.">>

promptText(instr, lang) ==
    <<"You are an expert academic grader for K-12 education.",
      langInstruction(lang), "Instructions: 1. .. 7.">>
    \o (IF trim(instr) # <<>>
        THEN <<"\n\nAdditional Teacher Instructions: ">> \o instr
        ELSE <<>>)
    \o <<"\n\nBelow are the images. First, the Answer Key/Rubric, then the Student Exam.">>

PageNumber(n) ==
    CASE n = 0 -> "0" [] n = 1 -> "1" [] n = 2 -> "2" [] n = 3 -> "3"
      [] n = 4 -> "4" [] OTHER -> "n"

\* a loop that numbers the pages from 0
RECURSIVE imagePartsZeroBased(_, _, _)
imagePartsZeroBased(files, label, i) ==
    IF i > Len(files) THEN <<>>
    ELSE (IF files[i].base64 # ""
          THEN <<[text |-> <<label, PageNumber(i - 1), "]">>],
                 [inlineData |-> [mimeType |-> files[i].mimeType,
                                  data |-> files[i].base64]]>>
          ELSE <<>>)
         \o imagePartsZeroBased(files, label, i + 1)

\* files.forEach((f, index) => ...) from position i on
RECURSIVE imageParts(_, _, _)
imageParts(files, label, i) ==
    IF i > Len(files) THEN <<>>
    ELSE (IF files[i].base64 # ""
          THEN <<[text |-> <<label, PageNumber(i), "]">>],
                 [inlineData |-> [mimeType |-> files[i].mimeType,
                                  data |-> files[i].base64]]>>
          ELSE <<>>)
         \o imageParts(files, label, i + 1)

\* a gradeExam that pushes the exam images before the rubric images
gradeExamPartsExamFirst(exam, rubric, instr, lang) ==
    <<[text |-> promptText(instr, lang)]>>
    \o imageParts(exam, "[Image: Student Exam Page ", 1)
    \o imageParts(rubric, "[Image: Rubric Page ", 1)

\* the parts gradeExam sends
gradeExamParts(exam, rubric, instr, lang) ==
    <<[text |-> promptText(instr, lang)]>>
    \o imageParts(rubric, "[Image: Rubric Page ", 1)
    \o imageParts(exam, "[Image: Student Exam Page ", 1)

\* the call gradeExam makes
gradeExamCall(exam, rubric, instr, lang) ==
    [kind |-> "grade", examFiles |-> exam, rubricFiles |-> rubric,
     instructions |-> instr, language |-> lang,
     contents |-> gradeExamParts(exam, rubric, instr, lang)]

\* what gradeExam makes of the model's answer
gradeExamOutcome(response) ==
    IF response.kind = "reject" THEN Throw(response.message)
    ELSE IF TextTruthy(response.text) THEN JSONparse(response.text)
    ELSE Throw("No response text generated")

improvePrompt(currentInstructions, teacherFeedback) ==
    <<"You are a helpful assistant for a teacher. Current Instructions: ">>
    \o currentInstructions
    \o <<" Teacher's Complaint/Feedback: ">>
    \o teacherFeedback
    \o <<" Task: .. Return ONLY the text of the new instruction rule. If the language is Chinese, return the rule in Chinese.">>

\* the call generateImprovedInstructions makes
generateImprovedInstructionsCall(currentInstructions, teacherFeedback, lang) ==
    [kind |-> "improve", currentInstructions |-> currentInstructions,
     teacherFeedback |-> teacherFeedback, language |-> lang,
     contents |-> improvePrompt(currentInstructions, teacherFeedback)]

\* what generateImprovedInstructions makes of the model's answer
generateImprovedInstructionsOutcome(response) ==
    IF response.kind = "reject" THEN Throw(response.message)
    ELSE Return(IF response.text.defined THEN trim(response.text.chars)
                ELSE <<>>)

----------------------------------------------------------------------------
(* App.tsx: what is rendered *)

\* the spinner replaces everything while improving (App.tsx:153)
ImprovingViewShown == status = "improving"

\* ResultView is rendered (App.tsx:159)
ResultViewShown == ~ImprovingViewShown /\ status = "success" /\ Truthy(result)

\* the input form is rendered otherwise (App.tsx:168)
InputViewShown == ~ImprovingViewShown /\ ~ResultViewShown

\* a grade button that is never disabled
GradeButtonNeverDisabled == FALSE

\* the grade button's disabled attribute (App.tsx:227)
GradeButtonDisabled == status = "processing"

\* the disabled attribute of the improve button of ResultView
\* (disabled={!feedback.trim()})
ImproveButtonDisabled(feedback) == trim(feedback) = <<>>

\* the upload area of an ImageUploader is rendered (ImageUploader.tsx:103)
UploadAreaShown(files, maxFiles) == Len(files) < maxFiles

----------------------------------------------------------------------------
(* App.tsx: the handlers *)

RemoveAt(s, i) == SubSeq(s, 1, i - 1) \o SubSeq(s, i + 1, Len(s))

Did(op, arg) == [op |-> op, arg |-> arg]

\* an event that edits the inputs of the form: language, text, files
Edited == Did("edit", <<>>)

\* a guard that looks at the exam images alone
FilesMissingExamOnly(exam, rubric) == Len(exam) = 0

\* the guard of handleGrade (App.tsx:62)
FilesMissing(exam, rubric) == Len(exam) = 0 \/ Len(rubric) = 0

\* a catch block that leaves the status as it is
StatusAfterGradeErrorProcessing == "processing"

\* a catch block that goes back to idle
StatusAfterGradeErrorIdle == "idle"

\* the status the catch block of handleGrade sets (App.tsx:76)
StatusAfterGradeError == "error"

\* a catch block that always shows the fixed text
GradeErrorMessageGeneric(message) ==
    "An unexpected error occurred during grading."

\* the message of the catch block of handleGrade (App.tsx:77)
GradeErrorMessage(message) ==
    IF message # "" THEN message
    ELSE "An unexpected error occurred during grading."

\* a guard that lets every feedback pass
FeedbackNeverMissing(feedback) == FALSE

\* the guard of handleImproveInstructions (App.tsx:97)
FeedbackMissing(feedback) == feedback = <<>>

\* an updater that writes the separator before every rule
appendRuleAlwaysSeparated(prev, newRule) ==
    prev \o <<"\n\n">> \o <<"[Updated Rule]: ">> \o newRule

\* an updater that puts the new rule before the text it is given
appendRulePrepending(prev, newRule) ==
    <<"[Updated Rule]: ">> \o newRule
    \o (IF prev # <<>> THEN <<"\n\n">> \o prev ELSE <<>>)

\* an updater that forgets the text it is given
appendRuleReplacing(prev, newRule) == <<"[Updated Rule]: ">> \o newRule

\* the updater passed to setInstructions (App.tsx:102-105)
appendRule(prev, newRule) ==
    (IF prev # <<>> THEN prev \o <<"\n\n">> ELSE <<>>)
    \o <<"[Updated Rule]: ">> \o newRule

\* a refinement without a rule that goes back to the input form
StatusAfterNoRuleIdle == "idle"

\* the outcome of a refinement that produced no rule (App.tsx:112, 116)
StatusAfterNoRule == "success"

\* an object built without the spread of the held result
withTotalScoreOnly(res, newScore) ==
    JObj([k \in {"totalScore"} |-> JNum(newScore)])

\* { ...result, totalScore: newScore } (App.tsx:92)
withTotalScore(res, newScore) ==
    JObj([k \in DOMAIN res.v \cup {"totalScore"} |->
            IF k = "totalScore" THEN JNum(newScore) ELSE res.v[k]])

\* a handleGrade that sets the status before it looks at the files
handleGradeStatusFirst ==
    /\ InputViewShown
    /\ ~GradeButtonDisabled
    /\ status' = "processing"
    /\ IF FilesMissing(examFiles, rubricFiles)
       THEN /\ errorMessage' = JStr(errorFiles(language))
            /\ UNCHANGED inflight
       ELSE /\ errorMessage' = JNull
            /\ inflight' = Append(inflight,
                   gradeExamCall(examFiles, rubricFiles, instructions, language))
    /\ last' = Did("handleGrade", <<>>)
    /\ UNCHANGED <<language, examFiles, rubricFiles, instructions, result, reads>>

\* handleGrade up to its await (App.tsx:61-71)
handleGrade ==
    /\ InputViewShown
    /\ ~GradeButtonDisabled
    /\ IF FilesMissing(examFiles, rubricFiles)
       THEN /\ errorMessage' = JStr(errorFiles(language))
            /\ UNCHANGED <<status, inflight>>
       ELSE /\ status' = "processing"
            /\ errorMessage' = JNull
            /\ inflight' = Append(inflight,
                   gradeExamCall(examFiles, rubricFiles, instructions, language))
    /\ last' = Did("handleGrade", <<>>)
    /\ UNCHANGED <<language, examFiles, rubricFiles, instructions, result, reads>>

\* a handleGrade that sends the call again when it has failed
handleGradeSettleRetrying(i, response) ==
    /\ inflight[i].kind = "grade"
    /\ LET out == gradeExamOutcome(response)
       IN  IF out.ok
           THEN /\ result' = out.value
                /\ status' = "success"
                /\ inflight' = RemoveAt(inflight, i)
           ELSE /\ inflight' = Append(RemoveAt(inflight, i), inflight[i])
                /\ UNCHANGED <<status, result>>
    /\ last' = Did("handleGradeSettle", response)
    /\ UNCHANGED <<language, examFiles, rubricFiles, instructions,
                   errorMessage, reads>>

\* handleGrade after its await: the call i settles with response
\* (App.tsx:71-78)
handleGradeSettle(i, response) ==
    /\ inflight[i].kind = "grade"
    /\ LET out == gradeExamOutcome(response)
       IN  IF out.ok
           THEN /\ result' = out.value
                /\ status' = "success"
                /\ UNCHANGED errorMessage
           ELSE /\ status' = StatusAfterGradeError
                /\ errorMessage' = JStr(GradeErrorMessage(out.message))
                /\ UNCHANGED result
    /\ inflight' = RemoveAt(inflight, i)
    /\ last' = Did("handleGradeSettle", response)
    /\ UNCHANGED <<language, examFiles, rubricFiles, instructions, reads>>

\* a handleReset that forgets the instructions
handleResetKeepingLedger ==
    /\ ResultViewShown
    /\ result' = JNull
    /\ status' = "idle"
    /\ examFiles' = <<>>
    /\ rubricFiles' = <<>>
    /\ errorMessage' = JNull
    /\ last' = Did("handleReset", <<>>)
    /\ UNCHANGED <<language, instructions, inflight, reads>>

\* a handleReset that can be triggered from every view
handleResetAnytime ==
    /\ result' = JNull
    /\ status' = "idle"
    /\ examFiles' = <<>>
    /\ rubricFiles' = <<>>
    /\ instructions' = <<>>
    /\ errorMessage' = JNull
    /\ last' = Did("handleReset", <<>>)
    /\ UNCHANGED <<language, inflight, reads>>

\* handleReset (App.tsx:81-88)
handleReset ==
    /\ ResultViewShown
    /\ result' = JNull
    /\ status' = "idle"
    /\ examFiles' = <<>>
    /\ rubricFiles' = <<>>
    /\ instructions' = <<>>
    /\ errorMessage' = JNull
    /\ last' = Did("handleReset", <<>>)
    /\ UNCHANGED <<language, inflight, reads>>

\* handleUpdateScore (App.tsx:90-94), called by the score card of ResultView
handleUpdateScore(newScore) ==
    /\ ResultViewShown
    /\ IF Truthy(result)
       THEN result' = withTotalScore(result, newScore)
       ELSE UNCHANGED result
    /\ last' = Did("handleUpdateScore", newScore)
    /\ UNCHANGED <<language, examFiles, rubricFiles, instructions, status,
                   errorMessage, inflight, reads>>

\* handleImproveInstructions up to its await (App.tsx:96-100), for every
\* feedback it may be called with.  A ledger that holds MaxRules rules is
\* not refined further.
handleImproveInstructions(feedback) ==
    /\ ResultViewShown
    /\ IF FeedbackMissing(feedback)
       THEN UNCHANGED <<status, inflight>>
       ELSE /\ RuleCount(instructions) < MaxRules
            /\ status' = "improving"
            /\ inflight' = Append(inflight,
                   generateImprovedInstructionsCall(instructions, feedback, language))
    /\ last' = Did("handleImproveInstructions", feedback)
    /\ UNCHANGED <<language, examFiles, rubricFiles, instructions, result,
                   errorMessage, reads>>

\* handleImproveInstructions after its await (App.tsx:100-117)
handleImproveSettle(i, response) ==
    /\ inflight[i].kind = "improve"
    /\ LET out == generateImprovedInstructionsOutcome(response)
       IN  IF out.ok /\ out.value # <<>>
           THEN /\ instructions' = appendRule(instructions, out.value)
                /\ result' = JNull
                /\ status' = "idle"
           ELSE /\ status' = StatusAfterNoRule
                /\ UNCHANGED <<instructions, result>>
    /\ inflight' = RemoveAt(inflight, i)
    /\ last' = Did("handleImproveSettle", response)
    /\ UNCHANGED <<language, examFiles, rubricFiles, errorMessage, reads>>

\* toggleLanguage (App.tsx:120-122)
toggleLanguage ==
    /\ language' = (IF language = "en" THEN "zh" ELSE "en")
    /\ last' = Edited
    /\ UNCHANGED <<examFiles, rubricFiles, instructions, status, result,
                   errorMessage, inflight, reads>>

\* onChange of the instructions textarea (App.tsx:193-198)
onInstructionsChange(text) ==
    /\ InputViewShown
    /\ text # instructions
    /\ instructions' = text
    /\ last' = Edited
    /\ UNCHANGED <<language, examFiles, rubricFiles, status, result,
                   errorMessage, inflight, reads>>

----------------------------------------------------------------------------
(* components/ImageUploader.tsx *)

Groups == {"rubric", "exam"}

FilesOf(group) == IF group = "rubric" THEN rubricFiles ELSE examFiles

MaxFilesOf(group) == IF group = "rubric" THEN RubricMaxFiles ELSE ExamMaxFiles

\* onFilesChange of the uploader of a group (App.tsx:187, 211)
onFilesChange(group, files) ==
    IF group = "rubric"
    THEN rubricFiles' = files /\ UNCHANGED examFiles
    ELSE examFiles' = files /\ UNCHANGED rubricFiles

\* handleFileSelect up to its first await (ImageUploader.tsx:38-55): the
\* files prop of this render is kept for the end of the loop.  At most
\* MaxReads loops run at a time and a group holds at most MaxGroupLen files.
handleFileSelect(group, newFiles) ==
    /\ InputViewShown
    /\ UploadAreaShown(FilesOf(group), MaxFilesOf(group))
    /\ Len(reads) < MaxReads
    /\ Len(FilesOf(group)) + Len(newFiles) <= MaxGroupLen
    /\ reads' = Append(reads, [group |-> group, files |-> FilesOf(group),
                               newFiles |-> newFiles])
    /\ last' = Edited
    /\ UNCHANGED <<language, examFiles, rubricFiles, instructions, status,
                   result, errorMessage, inflight>>

\* handleFileSelect after its last await (ImageUploader.tsx:57-65)
handleFileSelectSettle(i) ==
    /\ onFilesChange(reads[i].group, reads[i].files \o reads[i].newFiles)
    /\ reads' = RemoveAt(reads, i)
    /\ last' = Edited
    /\ UNCHANGED <<language, instructions, status, result, errorMessage,
                   inflight>>

\* removeFile (ImageUploader.tsx:71-74)
removeFile(group, index) ==
    /\ InputViewShown
    /\ onFilesChange(group, RemoveAt(FilesOf(group), index))
    /\ last' = Edited
    /\ UNCHANGED <<language, instructions, status, result, errorMessage,
                   inflight, reads>>

----------------------------------------------------------------------------
(* The session *)

Init ==
    /\ language = "zh"
    /\ examFiles = <<>>
    /\ rubricFiles = <<>>
    /\ instructions = <<>>
    /\ status = "idle"
    /\ result = JNull
    /\ errorMessage = JNull
    /\ inflight = <<>>
    /\ reads = <<>>
    /\ last = Did("mount", <<>>)

GradeClick == handleGrade

GradeSettles ==
    \E i \in DOMAIN inflight : \E response \in GradeResponses :
        handleGradeSettle(i, response)

ResetClick == handleReset

ScoreSave == \E newScore \in Scores : handleUpdateScore(newScore)

\* a click on the improve button of ResultView with the feedback typed:
\* onClick={() => onImproveInstructions(feedback)}, unless disabled
ImproveClick ==
    \E feedback \in Feedbacks :
        /\ ~ImproveButtonDisabled(feedback)
        /\ handleImproveInstructions(feedback)

ImproveSettles ==
    \E i \in DOMAIN inflight : \E response \in ImproveResponses :
        handleImproveSettle(i, response)

LanguageClick == toggleLanguage

InstructionsTyped == \E text \in TeacherTexts : onInstructionsChange(text)

FilesSelected ==
    \E group \in Groups : \E f \in FileChoices : handleFileSelect(group, <<f>>)

FilesRead == \E i \in DOMAIN reads : handleFileSelectSettle(i)

FileRemoved ==
    \E group \in Groups : \E index \in DOMAIN FilesOf(group) :
        removeFile(group, index)

Next ==
    \/ GradeClick
    \/ GradeSettles
    \/ ResetClick
    \/ ScoreSave
    \/ ImproveClick
    \/ ImproveSettles
    \/ LanguageClick
    \/ InstructionsTyped
    \/ FilesSelected
    \/ FilesRead
    \/ FileRemoved

Spec == Init /\ [][Next]_vars

----------------------------------------------------------------------------
(* Grading from a filled form: the session as it is once the teacher has
   uploaded files and typed instructions, from where grading is triggered
   and answered *)

SeqsUpTo(S, n) == UNION {[1..k -> S] : k \in 0..n}

ComposeInit ==
    /\ language \in Language
    /\ examFiles \in SeqsUpTo(ComposeFiles, MaxComposeLen)
    /\ rubricFiles \in SeqsUpTo(ComposeFiles, MaxComposeLen)
    /\ instructions \in TeacherTexts
    /\ status = "idle"
    /\ result = JNull
    /\ errorMessage = JNull
    /\ inflight = <<>>
    /\ reads = <<>>
    /\ last = Did("mount", <<>>)

ComposeNext ==
    \/ GradeClick
    \/ GradeSettles

ComposeSpec == ComposeInit /\ [][ComposeNext]_vars

----------------------------------------------------------------------------
(* The session when every call of the model is answered in the end: the
   promise of generateContent resolves or rejects, and the continuation of
   the handler that awaits it then runs.  The session starts with its files
   uploaded; the events of the uploaders, which neither read nor write the
   status and the calls, are left out. *)

UploadedInit ==
    /\ language = "zh"
    /\ examFiles \in SeqsUpTo(FileChoices, MaxGroupLen)
    /\ rubricFiles \in SeqsUpTo(FileChoices, MaxGroupLen)
    /\ instructions = <<>>
    /\ status = "idle"
    /\ result = JNull
    /\ errorMessage = JNull
    /\ inflight = <<>>
    /\ reads = <<>>
    /\ last = Did("mount", <<>>)

UploadedNext ==
    \/ GradeClick
    \/ GradeSettles
    \/ ResetClick
    \/ ScoreSave
    \/ ImproveClick
    \/ ImproveSettles
    \/ LanguageClick
    \/ InstructionsTyped

FairSpec ==
    /\ UploadedInit
    /\ [][UploadedNext]_vars
    /\ WF_vars(GradeSettles)
    /\ WF_vars(ImproveSettles)

----------------------------------------------------------------------------
(* handleImproveInstructions as a unit: the handler App passes to ResultView
   as onImproveInstructions, called with every feedback text, from a session
   that shows a result *)

\* the results the session may hold after a grading pass
HeldResults ==
    LET parsed == {JObj(ObjectOf(GoodMembers)),
                   JObj(ObjectOf(TwoQuestionMembers))}
    IN  parsed \cup {withTotalScore(r, n) : r \in parsed, n \in Scores}

ResultHeldInit ==
    /\ language \in Language
    /\ examFiles = <<ImgPage>>
    /\ rubricFiles = <<ImgPage>>
    /\ instructions \in TeacherTexts
    /\ status = "success"
    /\ result \in HeldResults
    /\ errorMessage = JNull
    /\ inflight = <<>>
    /\ reads = <<>>
    /\ last = Did("mount", <<>>)

\* onImproveInstructions(feedback)
ImproveCalled ==
    \E feedback \in Feedbacks : handleImproveInstructions(feedback)

ImproveNext ==
    \/ ImproveCalled
    \/ ImproveSettles

ImproveSpec == ResultHeldInit /\ [][ImproveNext]_vars

----------------------------------------------------------------------------
(* Properties of the session *)

IsPrefix(s, t) == Len(s) <= Len(t) /\ SubSeq(t, 1, Len(s)) = s

IsSuffix(s, t) ==
    Len(s) <= Len(t) /\ SubSeq(t, Len(t) - Len(s) + 1, Len(t)) = s

\* a refinement answer that carries a rule: text with a character that is no
\* whitespace
HasRule(response) ==
    /\ response.kind = "resolve"
    /\ response.text.defined
    /\ \E j \in DOMAIN response.text.chars :
          response.text.chars[j] \notin Whitespace

\* C1: at most one call of the model is outstanding; a grading call is
\* outstanding exactly while the status is processing and a refinement call
\* exactly while it is improving, so no call starts while another is
\* outstanding.
C1_OneRequestInFlight ==
    /\ Len(inflight) <= 1
    /\ status = "processing" <=>
          (inflight # <<>> /\ inflight[1].kind = "grade")
    /\ status = "improving" <=>
          (inflight # <<>> /\ inflight[1].kind = "improve")

\* a refinement call is outstanding, after a grading call has resolved
C1_Witness ==
    /\ Len(inflight) = 1
    /\ inflight[1].kind = "improve"
    /\ status = "improving"

\* the edges of the state machine of section 4.3
SpecEdges ==
    {<<"idle", "processing">>, <<"processing", "success">>,
     <<"processing", "error">>, <<"success", "improving">>,
     <<"improving", "idle">>, <<"improving", "success">>}

\* the edges the handlers add: reset from the result view, grading again
\* after an error, grading again from the input form shown in success
\* while the held result is null
CodeEdges ==
    SpecEdges \cup
    {<<"success", "idle">>, <<"error", "processing">>,
     <<"success", "processing">>}

\* C2 as stated: every change of the status follows an edge of section 4.3.
C2_SpecEdgesOnly ==
    [][status' # status => <<status, status'>> \in SpecEdges]_vars

\* C2 as amended: every change of the status follows an edge of section 4.3,
\* or success->idle (reset), error->processing (grading again after an
\* error) or success->processing (grading again while the held result is
\* null).
C2_CodeEdgesOnly ==
    [][status' # status => <<status, status'>> \in CodeEdges]_vars

\* the teacher has reset the session from the result view
C2_Witness ==
    /\ last.op = "handleReset"
    /\ status = "idle"

\* C3: when a refinement call settles with a rule while the session is
\* improving, the status becomes idle, the ledger is its text before with
\* the rule at its end, and no result is held.
C3_RuleAppended ==
    [][(last'.op = "handleImproveSettle" /\ HasRule(last'.arg)) =>
          /\ status = "improving"
          /\ status' = "idle"
          /\ IsPrefix(instructions, instructions')
          /\ Len(instructions') > Len(instructions)
          /\ IsSuffix(trim(last'.arg.text.chars), instructions')
          /\ result' = JNull]_vars

\* a rule was appended to a ledger that held the teacher's own text
C3_Witness ==
    /\ last.op = "handleImproveSettle"
    /\ HasRule(last.arg)
    /\ status = "idle"
    /\ Head(instructions) = "x"
    /\ RuleCount(instructions) = 1

\* C4: when a refinement call settles without a rule (empty text,
\* whitespace, no text, or a failure), the status goes from improving to
\* success, the error message stays as it was, and from the start of the
\* refinement to its end the ledger and the held result do not change.
C4_NoRuleKeepsResult ==
    [][/\ (last'.op = "handleImproveSettle" /\ ~HasRule(last'.arg)) =>
             /\ status = "improving"
             /\ status' = "success"
             /\ errorMessage' = errorMessage
       /\ (status = "improving" /\ status' # "idle") =>
             /\ instructions' = instructions
             /\ result' = result
             /\ Truthy(result)
       /\ (status' = "improving" /\ status # "improving") =>
             /\ instructions' = instructions
             /\ result' = result]_vars

\* a refinement call answered with whitespace, and the result is still held
C4_Witness ==
    /\ last.op = "handleImproveSettle"
    /\ last.arg = Resolve(RuleText(<<" ">>))
    /\ status = "success"
    /\ Truthy(result)

\* a grading answer that failed: the call rejected, or its text is absent,
\* empty or no JSON
GradeFailed(response) ==
    \/ response.kind = "reject"
    \/ response.text.form \in {"undefined", "empty", "garbage"}

\* C5 as stated: when a grading call fails while the session is processing,
\* the status becomes error with a message, and the ledger and both image
\* groups are what they were when grade() was called (what the call
\* carries).
C5_FailureKeepsInputs ==
    [][(last'.op = "handleGradeSettle" /\ GradeFailed(last'.arg)) =>
          /\ status = "processing"
          /\ status' = "error"
          /\ errorMessage'.t = "string"
          /\ errorMessage'.v # ""
          /\ \E i \in DOMAIN inflight :
                /\ inflight[i].kind = "grade"
                /\ inflight' = RemoveAt(inflight, i)
                /\ instructions' = inflight[i].instructions
                /\ examFiles' = inflight[i].examFiles
                /\ rubricFiles' = inflight[i].rubricFiles]_vars

\* a grading answer whose text is a JSON object that satisfies gradingSchema
SchemaValid(response) ==
    /\ response.kind = "resolve"
    /\ response.text.form = "object"
    /\ Conforms(JObj(ObjectOf(response.text.members)))

\* C6: when a grading call settles with a schema-valid body while the
\* session is processing, the status becomes success and the held result is
\* the object that body denotes.
C6_ValidBodyHeld ==
    [][(last'.op = "handleGradeSettle" /\ SchemaValid(last'.arg)) =>
          /\ status = "processing"
          /\ status' = "success"
          /\ result' = JObj(ObjectOf(last'.arg.text.members))]_vars

\* the body of the scenario of section 8 was accepted
C6_Witness ==
    /\ last.op = "handleGradeSettle"
    /\ last.arg = Resolve(TextObject(GoodMembers))
    /\ status = "success"
    /\ Conforms(result)
    /\ result.v["studentName"] = JStr("Ann")

\* C7: no grading call is made with an empty image group: every grading
\* call in flight carries at least one rubric file and one exam file, and
\* after handleGrade has run with an empty group the error message is the
\* upload reminder and no call is in flight.
C7_NoCallWithoutImages ==
    /\ \A i \in DOMAIN inflight :
          inflight[i].kind = "grade" =>
              Len(inflight[i].rubricFiles) > 0 /\ Len(inflight[i].examFiles) > 0
    /\ (last.op = "handleGrade" /\ (Len(examFiles) = 0 \/ Len(rubricFiles) = 0)) =>
          /\ errorMessage = JStr(errorFiles(language))
          /\ inflight = <<>>

\* grading was triggered with exam images and no rubric image
C7_Witness ==
    /\ last.op = "handleGrade"
    /\ rubricFiles = <<>>
    /\ examFiles # <<>>
    /\ errorMessage = JStr(errorFiles(language))
    /\ inflight = <<>>

\* C8: when handleGrade runs while an image group is empty, the status,
\* the held result, the ledger and both image groups stay as they were, and
\* the status is not processing.
C8_EmptyGroupNoChange ==
    [][(last'.op = "handleGrade" /\ (Len(examFiles) = 0 \/ Len(rubricFiles) = 0)) =>
          /\ status' = status
          /\ status' # "processing"
          /\ result' = result
          /\ instructions' = instructions
          /\ examFiles' = examFiles
          /\ rubricFiles' = rubricFiles]_vars

\* grading was triggered after an error with the exam images removed
C8_Witness ==
    /\ last.op = "handleGrade"
    /\ examFiles = <<>>
    /\ status = "error"
    /\ errorMessage = JStr(errorFiles(language))

\* C9: when handleImproveInstructions runs with empty feedback, no call is
\* made and the status, the ledger and the held result stay as they were.
C9_EmptyFeedbackRejected ==
    [][(last'.op = "handleImproveInstructions" /\ last'.arg = <<>>) =>
          /\ inflight' = inflight
          /\ status' = status
          /\ status' # "improving"
          /\ instructions' = instructions
          /\ result' = result]_vars

\* a refinement was triggered with empty feedback from the result view
C9_Witness ==
    /\ last.op = "handleImproveInstructions"
    /\ last.arg = <<>>
    /\ status = "success"
    /\ inflight = <<>>

\* C10 as stated: a grading answer whose body does not satisfy
\* gradingSchema makes the call fail: the session goes to error, never to
\* success, and the body is not held as the result.
C10_NonconformingRejected ==
    (/\ last.op = "handleGradeSettle"
     /\ last.arg.kind = "resolve"
     /\ ~SchemaValid(last.arg)) =>
        /\ status = "error"
        /\ result = JNull

----------------------------------------------------------------------------
(* Properties of the request gradeExam composes *)

RubricLabel == "[Image: Rubric Page "
ExamLabel == "[Image: Student Exam Page "
TaskFraming == "You are an expert academic grader for K-12 education."

IsImage(part) == "inlineData" \in DOMAIN part
IsText(part) == "text" \in DOMAIN part

\* the image segments of parts that follow a page label of a group, in
\* their order, each with its position
SegmentsLabelled(parts, label) ==
    SelectSeq([p \in 1..Len(parts) |-> [at |-> p, part |-> parts[p]]],
              LAMBDA e : /\ IsImage(e.part)
                         /\ e.at > 1
                         /\ IsText(parts[e.at - 1])
                         /\ parts[e.at - 1].text[1] = label)

\* the positions in files of the files that carry image data, in order
ImageIndexes(files) ==
    SelectSeq([i \in 1..Len(files) |-> i], LAMBDA i : files[i].base64 # "")

\* the image data of those files, as a segment carries it
ImagesOf(files) ==
    [j \in DOMAIN ImageIndexes(files) |->
        [mimeType |-> files[ImageIndexes(files)[j]].mimeType,
         data |-> files[ImageIndexes(files)[j]].base64]]

GradeCalls == {i \in DOMAIN inflight : inflight[i].kind = "grade"}

\* C11: in the parts of every grading call, every image segment of the
\* rubric group comes before every image segment of the exam group, and
\* the image segments of each group are the images of that group's files in
\* the order of the files.
C11_RubricBeforeExamInOrder ==
    \A c \in GradeCalls :
        LET parts == inflight[c].contents
            R == SegmentsLabelled(parts, RubricLabel)
            E == SegmentsLabelled(parts, ExamLabel)
        IN  /\ \A i \in DOMAIN R : \A j \in DOMAIN E : R[i].at < E[j].at
            /\ [i \in DOMAIN R |-> R[i].part.inlineData]
                  = ImagesOf(inflight[c].rubricFiles)
            /\ [j \in DOMAIN E |-> E[j].part.inlineData]
                  = ImagesOf(inflight[c].examFiles)

\* a call was made with two different images in each group, in opposite
\* orders
C11_Witness ==
    /\ Len(inflight) = 1
    /\ inflight[1].kind = "grade"
    /\ inflight[1].rubricFiles = <<ImgPage, ImgPhoto>>
    /\ inflight[1].examFiles = <<ImgPhoto, ImgPage>>
    /\ Len(inflight[1].contents) = 9

\* the page label a group's file at position k gets
PageLabel(label, k) == <<label, PageNumber(k), "]">>

\* C12: the parts of every grading call start with the one instruction
\* segment; every other text segment is a page label; every image segment
\* directly follows a page label, and the label of the j-th image of a
\* group names that group and the position (counted from 1) that the image's
\* file has in the group.
C12_OneInstructionThenLabelledImages ==
    \A c \in GradeCalls :
        LET parts == inflight[c].contents
            R == SegmentsLabelled(parts, RubricLabel)
            E == SegmentsLabelled(parts, ExamLabel)
            rubricAt == ImageIndexes(inflight[c].rubricFiles)
            examAt == ImageIndexes(inflight[c].examFiles)
        IN  /\ IsText(parts[1])
            /\ parts[1].text[1] = TaskFraming
            /\ \A p \in 2..Len(parts) :
                  IsText(parts[p]) =>
                      /\ parts[p].text[1] \in {RubricLabel, ExamLabel}
                      /\ p < Len(parts)
                      /\ IsImage(parts[p + 1])
            /\ Len(R) + Len(E) = Len(SelectSeq(parts, IsImage))
            /\ Len(R) = Len(rubricAt)
            /\ Len(E) = Len(examAt)
            /\ \A j \in DOMAIN R :
                  parts[R[j].at - 1].text = PageLabel(RubricLabel, rubricAt[j])
            /\ \A j \in DOMAIN E :
                  parts[E[j].at - 1].text = PageLabel(ExamLabel, examAt[j])

\* a call was made whose second rubric file and second exam file carry the
\* only images of their groups: they are labelled page 2
C12_Witness ==
    /\ Len(inflight) = 1
    /\ inflight[1].kind = "grade"
    /\ inflight[1].rubricFiles = <<ImgBlank, ImgPage>>
    /\ inflight[1].examFiles = <<ImgBlank, ImgPhoto>>
    /\ inflight[1].contents[2].text = <<RubricLabel, "2", "]">>
    /\ inflight[1].contents[4].text = <<ExamLabel, "2", "]">>

\* C13 as stated: the parts of every grading call hold at least one image
\* segment of the rubric group and at least one of the exam group.
C13_BothGroupsInEveryRequest ==
    \A c \in GradeCalls :
        /\ Len(SegmentsLabelled(inflight[c].contents, RubricLabel)) >= 1
        /\ Len(SegmentsLabelled(inflight[c].contents, ExamLabel)) >= 1

----------------------------------------------------------------------------
(* Properties of the session, continued *)

\* the value a JSON object text gives to a key: that of its last member
\* with the key
MemberValue(members, key) ==
    LET at == {i \in DOMAIN members : members[i][1] = key}
    IN  members[CHOOSE i \in at : \A h \in at : h <= i][2]

\* C14: when a grading call settles with a schema-valid body, the held
\* result has the body's fields and no other, every field has the body's
\* value, and the questions are the body's questions, as many, in the same
\* order, each with its own fields and values.
C14_ResultEqualsBodyFieldwise ==
    [][(last'.op = "handleGradeSettle" /\ SchemaValid(last'.arg)) =>
          LET body == last'.arg.text.members
              questions == MemberValue(body, "questions").v
              held == result'.v["questions"].v
          IN  /\ result'.t = "object"
              /\ DOMAIN result'.v = {body[i][1] : i \in DOMAIN body}
              /\ \A k \in DOMAIN result'.v :
                    result'.v[k] = MemberValue(body, k)
              /\ Len(held) = Len(questions)
              /\ \A n \in DOMAIN questions :
                    /\ DOMAIN held[n].v = DOMAIN questions[n].v
                    /\ \A f \in DOMAIN questions[n].v :
                          held[n].v[f] = questions[n].v[f]]_vars

\* a body of two questions, the second with a rubric reference, was
\* accepted and is held with its questions in the body's order
C14_Witness ==
    /\ last.op = "handleGradeSettle"
    /\ last.arg = Resolve(TextObject(TwoQuestionMembers))
    /\ status = "success"
    /\ result.v["questions"].v[1].v["questionId"] = JStr("1")
    /\ result.v["questions"].v[2].v["rubricReference"] = JStr("Q2b: x = 4")
    /\ "studentName" \notin DOMAIN result.v

\* y occurs in t, starting after the first n places of t
OccursAfter(y, t, n) ==
    \E k \in (n + 1)..(Len(t) - Len(y) + 1) : SubSeq(t, k, k + Len(y) - 1) = y

\* C15 as stated: when a refinement call settles with a rule, the ledger
\* starts with the text it had before, unchanged, and the model's output Y,
\* as the model gave it, occurs in the ledger after that text.
C15_OutputAfterPriorContent ==
    [][(last'.op = "handleImproveSettle" /\ HasRule(last'.arg)) =>
          /\ IsPrefix(instructions, instructions')
          /\ OccursAfter(last'.arg.text.chars, instructions',
                         Len(instructions))]_vars

\* C15 as amended: when a refinement call settles with a rule, the ledger
\* starts with the text it had before, unchanged, and the model's output
\* without its leading and trailing whitespace occurs in the ledger after
\* that text.
C15_TrimmedOutputAfterPriorContent ==
    [][(last'.op = "handleImproveSettle" /\ HasRule(last'.arg)) =>
          /\ IsPrefix(instructions, instructions')
          /\ OccursAfter(trim(last'.arg.text.chars), instructions',
                         Len(instructions))]_vars

\* the model answered " r " and the ledger, which held the teacher's x, now
\* ends with r
C15_Witness ==
    /\ last.op = "handleImproveSettle"
    /\ last.arg = Resolve(RuleText(<<" ", "r", " ">>))
    /\ instructions = <<"x", "\n\n", "[Updated Rule]: ", "r">>

RuleTag == "[Updated Rule]: "

\* the places of a ledger text where a rule starts
TagPlaces(s) == SelectSeq([i \in 1..Len(s) |-> i], LAMBDA i : s[i] = RuleTag)

\* the rules of a ledger text, in their order: each runs from its tag to
\* the separator before the next tag, or to the end
RulesOf(s) ==
    LET at == TagPlaces(s)
    IN  [j \in DOMAIN at |->
            SubSeq(s, at[j] + 1,
                   IF j < Len(at) THEN at[j + 1] - 2 ELSE Len(s))]

\* C16 as stated: no step of the session removes or reorders a rule of the
\* ledger: the rules the ledger holds before a step are the first rules it
\* holds after the step, in the same order.
C16_RulesNeverRemoved ==
    [][IsPrefix(RulesOf(instructions), RulesOf(instructions'))]_vars

InstructionsMarker == "\n\nAdditional Teacher Instructions: "

\* C17: when handleGrade makes a grading call, the first segment of the
\* call is text that holds the whole ledger as it is at that moment, right
\* after the marker of the teacher's instructions, unless the ledger is
\* empty or whitespace only, and then the segment holds no such marker; a
\* ledger that holds a rule is always carried.
C17_LedgerCarriedVerbatim ==
    [][(last'.op = "handleGrade" /\ inflight' # inflight) =>
          LET call == inflight'[Len(inflight')]
              text == call.contents[1].text
              blank == \A j \in DOMAIN instructions :
                           instructions[j] \in Whitespace
          IN  /\ call.kind = "grade"
              /\ IsText(call.contents[1])
              /\ ~blank =>
                    OccursAfter(<<InstructionsMarker>> \o instructions, text, 0)
              /\ blank =>
                    \A j \in DOMAIN text : text[j] # InstructionsMarker
              /\ RuleCount(instructions) > 0 => ~blank]_vars

\* a grading call was made from a ledger that holds the teacher's text and
\* an appended rule
C17_Witness ==
    /\ last.op = "handleGrade"
    /\ Len(inflight) = 1
    /\ inflight[1].kind = "grade"
    /\ inflight[1].instructions = <<"x", "\n\n", "[Updated Rule]: ", "r">>
    /\ OccursAfter(<<"x", "\n\n", "[Updated Rule]: ", "r">>,
                   inflight[1].contents[1].text, 0)

\* C18 as stated: while a call of the model is outstanding (the status is
\* processing or improving), the ledger changes only by the step that
\* settles that call.
C18_LedgerFrozenWhileInFlight ==
    [][(status \in {"processing", "improving"} /\ instructions' # instructions) =>
          /\ inflight # <<>>
          /\ last'.op \in {"handleGradeSettle", "handleImproveSettle"}]_vars

\* C19: no call of the model outlives a reset: when handleReset runs no
\* call is outstanding, so none that was made before it can settle after
\* it; and every call that settles is the only one outstanding and finds
\* the session still waiting for it, in processing for a grading call and
\* in improving for a refinement call.
C19_NoRequestOutlivesReset ==
    [][/\ last'.op = "handleReset" =>
             /\ inflight = <<>>
             /\ inflight' = <<>>
             /\ status = "success"
       /\ last'.op = "handleGradeSettle" =>
             /\ Len(inflight) = 1
             /\ status = "processing"
       /\ last'.op = "handleImproveSettle" =>
             /\ Len(inflight) = 1
             /\ status = "improving"]_vars

\* the session was reset from a result in the other language, and no call
\* is outstanding that could reach the cleared session
C19_Witness ==
    /\ last.op = "handleReset"
    /\ language = "en"
    /\ inflight = <<>>
    /\ result = JNull
    /\ instructions = <<>>
    /\ examFiles = <<>>
    /\ rubricFiles = <<>>

\* C20 as stated: when the call of the model made by a grading pass is
\* rejected, the session enters error and the error message is the message
\* of the rejection, as it is.
C20_FailureMessageVerbatim ==
    [][(last'.op = "handleGradeSettle" /\ last'.arg.kind = "reject") =>
          /\ status' = "error"
          /\ errorMessage' = JStr(last'.arg.message)]_vars

\* C20 as amended: when the call of the model made by a grading pass is
\* rejected, the session enters error and the error message is the message
\* of the rejection, as it is, if that message is not empty, and the fixed
\* text "An unexpected error occurred during grading." if it is empty.
C20_FailureMessageVerbatimOrFallback ==
    [][(last'.op = "handleGradeSettle" /\ last'.arg.kind = "reject") =>
          /\ status' = "error"
          /\ last'.arg.message # "" =>
                errorMessage' = JStr(last'.arg.message)
          /\ last'.arg.message = "" =>
                errorMessage' =
                    JStr("An unexpected error occurred during grading.")]_vars

\* a grading call was rejected without a message, and the fixed text is
\* shown
C20_Witness ==
    /\ last.op = "handleGradeSettle"
    /\ last.arg = Reject("")
    /\ status = "error"
    /\ errorMessage = JStr("An unexpected error occurred during grading.")

\* C21: a call of the model is made only by the step of handleGrade or
\* handleImproveInstructions that the teacher triggers, one call per step;
\* the step that settles a call, with an answer or a failure, takes that
\* call away and makes no other, so that after a failure no call is
\* outstanding until the teacher triggers one.
C21_NoAutomaticRetry ==
    [][/\ Len(inflight') > Len(inflight) =>
             /\ last'.op \in {"handleGrade", "handleImproveInstructions"}
             /\ Len(inflight') = Len(inflight) + 1
             /\ SubSeq(inflight', 1, Len(inflight)) = inflight
       /\ last'.op \in {"handleGradeSettle", "handleImproveSettle"} =>
             /\ \E i \in DOMAIN inflight : inflight' = RemoveAt(inflight, i)
             /\ Len(inflight') = Len(inflight) - 1
       /\ (last'.op = "handleGradeSettle" /\ GradeFailed(last'.arg)) =>
             inflight' = <<>>
       /\ (last'.op = "handleImproveSettle" /\ last'.arg.kind = "reject") =>
             inflight' = <<>>]_vars

\* a refinement call was rejected: the session is back in success and no
\* call is outstanding
C21_Witness ==
    /\ last.op = "handleImproveSettle"
    /\ last.arg.kind = "reject"
    /\ status = "success"
    /\ inflight = <<>>

\* C22 as stated: whenever a result is held whose totalScore and maxScore
\* are numbers, totalScore is at most maxScore.
C22_TotalAtMostMax ==
    (/\ result.t = "object"
     /\ {"totalScore", "maxScore"} \subseteq DOMAIN result.v
     /\ result.v["totalScore"].t = "number"
     /\ result.v["maxScore"].t = "number") =>
        result.v["totalScore"].v <= result.v["maxScore"].v

Separator == "\n\n"

\* C23: when a refinement call settles with a rule, the ledger gains one
\* entry: if it was empty it becomes the tag followed by the rule, and
\* otherwise its text before, the separator, the tag and the rule; the
\* number of tagged entries grows by one.
C23_OneTaggedEntryAppended ==
    [][(last'.op = "handleImproveSettle" /\ HasRule(last'.arg)) =>
          LET rule == trim(last'.arg.text.chars)
          IN  /\ instructions = <<>> =>
                    instructions' = <<RuleTag>> \o rule
              /\ instructions # <<>> =>
                    instructions' =
                        instructions \o <<Separator, RuleTag>> \o rule
              /\ RuleCount(instructions') = RuleCount(instructions) + 1
              /\ Len(RulesOf(instructions')) = Len(RulesOf(instructions)) + 1
              /\ RulesOf(instructions')[Len(RulesOf(instructions'))] = rule]_vars

\* a rule was appended to an empty ledger, which is now the tagged entry
\* alone
C23_Witness ==
    /\ last.op = "handleImproveSettle"
    /\ HasRule(last.arg)
    /\ instructions = <<RuleTag, "r">>

ImproveCalls == {i \in DOMAIN inflight : inflight[i].kind = "improve"}

\* C24 as stated: the text of every refinement call holds the ledger and
\* the feedback it was made with, and tells the language it was made with:
\* made with the other language, the text would be another.
C24_RefinePromptCarriesLanguage ==
    \A c \in ImproveCalls :
        LET call == inflight[c]
        IN  /\ OccursAfter(call.currentInstructions, call.contents, 0)
            /\ OccursAfter(call.teacherFeedback, call.contents, 0)
            /\ \A other \in Language \ {call.language} :
                  generateImprovedInstructionsCall(
                      call.currentInstructions, call.teacherFeedback,
                      other).contents # call.contents

\* C25: when every call of the model is answered in the end, a session in
\* processing comes to success or error and a session in improving comes to
\* idle or success.
C25_RequestsSettle ==
    /\ (status = "processing") ~> (status \in {"success", "error"})
    /\ (status = "improving") ~> (status \in {"idle", "success"})

\* a grading call without text has settled: the session has left processing
\* for error
C25_Witness ==
    /\ last.op = "handleGradeSettle"
    /\ last.arg = Resolve(TextEmpty)
    /\ status = "error"
    /\ inflight = <<>>

\* C26 as stated: whenever the status is success, a result is held.
C26_SuccessHoldsResult ==
    status = "success" => result # JNull

\* C27 as stated: when a grading call settles and the session enters
\* success, the exam images the session holds are the exam images the call
\* was made with, and so are the rubric images: neither group has changed
\* since the call was composed.
C27_HeldImagesAreSentImages ==
    [][(last'.op = "handleGradeSettle" /\ status' = "success") =>
          \E i \in DOMAIN inflight :
              /\ inflight[i].kind = "grade"
              /\ inflight' = RemoveAt(inflight, i)
              /\ examFiles' = inflight[i].examFiles
              /\ rubricFiles' = inflight[i].rubricFiles]_vars

\* C28: a score edit gives the held result the new totalScore and leaves
\* every other field of it as it was, adding and dropping none; it leaves
\* status, ledger, image groups, error message and language as they were;
\* and when no result is held it changes nothing.
C28_ScoreEditChangesTotalOnly ==
    [][last'.op = "handleUpdateScore" =>
          /\ IF Truthy(result)
             THEN /\ result'.t = "object"
                  /\ DOMAIN result'.v = DOMAIN result.v \cup {"totalScore"}
                  /\ result'.v["totalScore"] = JNum(last'.arg)
                  /\ \A k \in DOMAIN result.v \ {"totalScore"} :
                        result'.v[k] = result.v[k]
             ELSE result' = result
          /\ status' = status
          /\ instructions' = instructions
          /\ examFiles' = examFiles
          /\ rubricFiles' = rubricFiles
          /\ errorMessage' = errorMessage
          /\ language' = language
          /\ inflight' = inflight]_vars

\* the total of the two-question result was edited to 0; its maxScore, its
\* grade and its questions are those of the model's answer
C28_Witness ==
    /\ last.op = "handleUpdateScore"
    /\ last.arg = 0
    /\ status = "success"
    /\ result.v["totalScore"] = JNum(0)
    /\ result.v["maxScore"] = JNum(12)
    /\ result.v["letterGrade"] = JStr("B+")
    /\ result.v["questions"] = JArr(<<JObj(Question1), JObj(Question2)>>)

\* C29: after a step of handleReset the status is idle, no result is held,
\* both image groups and the ledger are empty and there is no error
\* message, and the language is the one before the step.
C29_ResetClearsAllButLanguage ==
    [][last'.op = "handleReset" =>
          /\ status' = "idle"
          /\ result' = JNull
          /\ examFiles' = <<>>
          /\ rubricFiles' = <<>>
          /\ instructions' = <<>>
          /\ errorMessage' = JNull
          /\ language' = language]_vars

\* the session was reset in the language it started with and is as it was
\* at the start
C29_Witness ==
    /\ last.op = "handleReset"
    /\ language = "zh"
    /\ status = "idle"
    /\ result = JNull
    /\ examFiles = <<>>
    /\ rubricFiles = <<>>
    /\ instructions = <<>>
    /\ errorMessage = JNull

\* C30: when a grading call resolves with a text that is absent or empty,
\* the session goes from processing to error, the error message is "No
\* response text generated", and the held result stays as it was.
C30_NoTextIsAnError ==
    [][(/\ last'.op = "handleGradeSettle"
        /\ last'.arg.kind = "resolve"
        /\ last'.arg.text.form \in {"undefined", "empty"}) =>
          /\ status = "processing"
          /\ status' = "error"
          /\ errorMessage' = JStr("No response text generated")
          /\ result' = result]_vars

\* a grading call resolved without a text, and the message says so
C30_Witness ==
    /\ last.op = "handleGradeSettle"
    /\ last.arg = Resolve(TextUndefined)
    /\ status = "error"
    /\ errorMessage = JStr("No response text generated")
    /\ result = JNull

====
